---- MODULE Spec2Model ----
(***************************************************************************)
(* A model of the Maze of src/src/main.rs: construction (new_from) with    *)
(* the three creation algorithms, the two solving algorithms, unsolve and  *)
(* is_solved.  Recursive procedures (walk, divide, solve_from_backtracking)*)
(* run on an explicit call stack, one action per call, loop iteration or   *)
(* return.  Every random draw is a nondeterministic choice.                *)
(***************************************************************************)
EXTENDS Integers, Sequences, FiniteSets, TLC

\* The largest dimension a caller asks new_from for.
MaxDim == 6

CreationAlgorithm == {"RandomWalk", "RecursiveDivision", "Prim"}

SolvingAlgorithm == {"RecursiveBacktracking", "DeadEndFilling"}

VARIABLES
    pc,          \* where the program is: "start" (no Maze yet), "walk", "divide",
                 \* "prim" (inside new_from), "idle" (between calls),
                 \* "backtracking", "scan", "fill" (inside solve_from), "panicked"
    dimensions,  \* Maze.dimensions, (height, width)
    entrypoint,  \* Maze.entrypoint
    goalpoint,   \* Maze.goalpoint
    cells,       \* Maze.cells, a function from (y, x) to a Cell
    stack,       \* the call stack of walk / divide / solve_from_backtracking
    frontiers,   \* gen_from_prim's list of frontier cells
    dead_ends,   \* solve_from_dead_end_filling's list of dead ends
    scan,        \* (i, j) of the detection pass of dead-end filling
    ret,         \* the value the last solve_from_backtracking call returned
    panic,       \* the panic that ended the program, "" when none
    last_call,   \* the public operation that ran last, with its arguments
    pushed,      \* history: every cell pushed on dead_ends in this run, in order
    marked       \* history: per solving algorithm, the cells it left visited when
                 \* last run on this maze with no visited flag set ({}: not yet)

vars == <<pc, dimensions, entrypoint, goalpoint, cells, stack,
          frontiers, dead_ends, scan, ret, panic, last_call, pushed, marked>>

-----------------------------------------------------------------------------
(* Cells and coordinates *)

Cell(w, v) == [wall |-> w, visited |-> v]

Grid(dims) == (0 .. dims[1] - 1) \X (0 .. dims[2] - 1)

Plus(pos, off) == <<pos[1] + off[1], pos[2] + off[2]>>

\* x / 2 of Rust's isize: truncation toward zero
Half(n) == IF n >= 0 THEN n \div 2 ELSE -((-n) \div 2)

SetWall(cs, pos, w) == [cs EXCEPT ![pos].wall = w]

SetVisited(cs, pos, v) == [cs EXCEPT ![pos].visited = v]

\* a variant of ClearVisited that skips the first and last column
ClearInnerColumns(cs) ==
    [p \in DOMAIN cs |->
        IF \A q \in DOMAIN cs : q[2] <= p[2] \/ p[2] = 0 THEN cs[p]
        ELSE [cs[p] EXCEPT !.visited = FALSE]]

ClearVisited(cs) == [p \in DOMAIN cs |-> [cs[p] EXCEPT !.visited = FALSE]]

OddOdd(dims) ==
    {p \in (1 .. dims[1] - 2) \X (1 .. dims[2] - 2) : p[1] % 2 = 1 /\ p[2] % 2 = 1}

\* "within the allowable area": strictly inside the border
InAllowableArea(p, dims) ==
    p[1] > 0 /\ p[1] < dims[1] - 1 /\ p[2] > 0 /\ p[2] < dims[2] - 1

Entry == <<1, 0>>

Goal(dims) == <<dims[1] - 2, dims[2] - 1>>

OpenEntryAndGoal(cs, dims) == SetWall(SetWall(cs, Entry, FALSE), Goal(dims), FALSE)

Push(s, f) == <<f>> \o s

Pop(s) == Tail(s)

Top(s) == Head(s)

-----------------------------------------------------------------------------
(* new_from *)

\* a variant of TooSmall with < for <=
TooSmallStrict(dims) == dims[1] < 2 \/ dims[2] < 2

TooSmall(dims) == dims[1] <= 2 \/ dims[2] <= 2

RoundUp(n) == n + (IF n % 2 = 0 THEN 1 ELSE 0)

InitialWall(algorithm) == algorithm # "RecursiveDivision"

NewCells(dims, algorithm) ==
    [p \in Grid(<<RoundUp(dims[1]), RoundUp(dims[2])>>) |->
        Cell(InitialWall(algorithm), FALSE)]

CellsDimensions(cs) ==
    <<Cardinality({p[1] : p \in DOMAIN cs}), Cardinality({p[2] : p \in DOMAIN cs})>>

two_offsets_walk == {<<-2, 0>>, <<2, 0>>, <<0, -2>>, <<0, 2>>}

\* the effect of entering walk(pos): the cell is opened and marked visited
WalkEnter(cs, pos) == SetVisited(SetWall(cs, pos, FALSE), pos, TRUE)

WalkFrame(pos) == [pos |-> pos]

gen_from_walk(cs) ==
    LET dims == CellsDimensions(cs) IN
    /\ dimensions' = dims
    /\ entrypoint' = Entry
    /\ goalpoint' = Goal(dims)
    /\ \E starter \in OddOdd(dims) :
          /\ cells' = WalkEnter(OpenEntryAndGoal(cs, dims), starter)
          /\ stack' = <<WalkFrame(starter)>>
    /\ pc' = "walk"
    /\ UNCHANGED frontiers

BorderCells(dims) ==
    {p \in Grid(dims) :
        p[1] = 0 \/ p[1] = dims[1] - 1 \/ p[2] = 0 \/ p[2] = dims[2] - 1}

\* a variant of SetBorderWalls that sets the top and bottom rows only
SetTopBottomWalls(cs, dims) ==
    [p \in DOMAIN cs |-> IF p[1] = 0 \/ p[1] = dims[1] - 1
                         THEN [cs[p] EXCEPT !.wall = TRUE] ELSE cs[p]]

SetBorderWalls(cs, dims) ==
    [p \in DOMAIN cs |-> IF p \in BorderCells(dims) THEN [cs[p] EXCEPT !.wall = TRUE]
                                                   ELSE cs[p]]

DivideFrame(tl, br) == [top_left |-> tl, bottom_right |-> br]

gen_from_divide(cs) ==
    LET dims == CellsDimensions(cs) IN
    /\ dimensions' = dims
    /\ entrypoint' = Entry
    /\ goalpoint' = Goal(dims)
    /\ cells' = OpenEntryAndGoal(SetBorderWalls(cs, dims), dims)
    /\ stack' = <<DivideFrame(<<0, 0>>, <<dims[1] - 1, dims[2] - 1>>)>>
    /\ pc' = "divide"
    /\ UNCHANGED frontiers

two_offsets_prim == <<<<-2, 0>>, <<2, 0>>, <<0, 2>>, <<0, -2>>>>

InList(list, p) == \E k \in 1 .. Len(list) : list[k] = p

\* a variant of IsFrontier that does not look the cell up in the list
IsFrontierUnchecked(cs, list, p) ==
    /\ InAllowableArea(p, CellsDimensions(cs))
    /\ cs[p].wall

IsFrontier(cs, list, p) ==
    /\ InAllowableArea(p, CellsDimensions(cs))
    /\ cs[p].wall
    /\ ~InList(list, p)

RECURSIVE AppendFrom(_, _, _, _)
AppendFrom(cs, list, pos, k) ==
    IF k > Len(two_offsets_prim) THEN list
    ELSE LET two_neighbor == Plus(pos, two_offsets_prim[k]) IN
         AppendFrom(cs,
                    IF IsFrontier(cs, list, two_neighbor)
                        THEN Append(list, two_neighbor) ELSE list,
                    pos, k + 1)

append_frontiers(cs, list, pos) == AppendFrom(cs, list, pos, 1)

gen_from_prim(cs) ==
    LET dims == CellsDimensions(cs) IN
    /\ dimensions' = dims
    /\ entrypoint' = Entry
    /\ goalpoint' = Goal(dims)
    /\ \E starter \in OddOdd(dims) :
          LET opened == SetWall(OpenEntryAndGoal(cs, dims), starter, FALSE) IN
          /\ cells' = opened
          /\ frontiers' = append_frontiers(opened, <<>>, starter)
    /\ pc' = "prim"
    /\ UNCHANGED stack

Call(op, algorithm, dims, fresh) ==
    [op |-> op, algorithm |-> algorithm, dimensions |-> dims, fresh |-> fresh]

new_from ==
    /\ pc = "start"
    /\ \E dims \in (0 .. MaxDim) \X (0 .. MaxDim), algorithm \in CreationAlgorithm :
          /\ last_call' = Call("new_from", algorithm, dims, TRUE)
          /\ IF TooSmall(dims)
             THEN /\ pc' = "panicked"
                  /\ panic' = "Can't create a maze this small"
                  /\ UNCHANGED <<dimensions, entrypoint, goalpoint, cells, stack,
                                 frontiers>>
             ELSE /\ CASE algorithm = "RandomWalk" ->
                              gen_from_walk(NewCells(dims, algorithm))
                       [] algorithm = "RecursiveDivision" ->
                              gen_from_divide(NewCells(dims, algorithm))
                       [] algorithm = "Prim" ->
                              gen_from_prim(NewCells(dims, algorithm))
                  /\ UNCHANGED panic
    /\ UNCHANGED <<dead_ends, scan, ret, pushed, marked>>

-----------------------------------------------------------------------------
(* gen_from_walk: walk *)

\* a variant of Between that forgets to halve the offset
BetweenUnhalved(pos, off) == <<pos[1] + off[1], pos[2] + off[2]>>

Between(pos, off) == <<pos[1] + Half(off[1]), pos[2] + Half(off[2])>>

CanWalkTo(cs, p, dims) == InAllowableArea(p, dims) /\ ~cs[p].visited

\* The guard of walk_to's if, for the call walk(pos) and one offset
WalkGuard(cs, pos, two_offset, dims) == CanWalkTo(cs, Plus(pos, two_offset), dims)

WalkableOffsets(cs, pos, dims) ==
    {two_offset \in two_offsets_walk : WalkGuard(cs, pos, two_offset, dims)}

(* "for two_offset in get_two_offset_shuffle() { walk_to(two_offset) }" of the   *)
(* call on top of the stack, run up to and including its next iteration whose  *)
(* guard holds.  An iteration whose guard fails changes nothing, and a guard   *)
(* that fails keeps failing for the rest of the walk (the bounds are fixed and *)
(* walk never clears a visited mark), so the offsets of the shuffled order     *)
(* that are still to come and can still act are exactly the offsets whose      *)
(* guard holds now; the shuffle makes any of them the next.                    *)
walk_to ==
    /\ pc = "walk"
    /\ stack # <<>>
    /\ \E two_offset \in WalkableOffsets(cells, Top(stack).pos, dimensions) :
          LET pos == Top(stack).pos
              two_neighbor == Plus(pos, two_offset) IN
          /\ cells' = WalkEnter(SetWall(cells, Between(pos, two_offset), FALSE),
                                two_neighbor)
          /\ stack' = Push(stack, WalkFrame(two_neighbor))
    /\ UNCHANGED <<pc, dimensions, entrypoint, goalpoint, frontiers,
                   dead_ends, scan, ret, panic, last_call, pushed, marked>>

\* the for loop of the call on top of the stack ends: no offset is left to act
walk_return ==
    /\ pc = "walk"
    /\ stack # <<>>
    /\ WalkableOffsets(cells, Top(stack).pos, dimensions) = {}
    /\ stack' = Pop(stack)
    /\ UNCHANGED <<pc, dimensions, entrypoint, goalpoint, cells, frontiers,
                   dead_ends, scan, ret, panic, last_call, pushed, marked>>

\* walk(starter) has returned: clear the carve-time marks and return the Maze
gen_from_walk_finish ==
    /\ pc = "walk"
    /\ stack = <<>>
    /\ cells' = ClearVisited(cells)
    /\ pc' = "idle"
    /\ UNCHANGED <<dimensions, entrypoint, goalpoint, stack, frontiers,
                   dead_ends, scan, ret, panic, last_call, pushed, marked>>

-----------------------------------------------------------------------------
(* gen_from_divide: divide *)

Evens(lo, hi) == {k \in lo .. hi : k % 2 = 0}

\* a variant of Odds that takes the first draw, of either parity
AnyIndex(lo, hi) == lo .. hi

Odds(lo, hi) == {k \in lo .. hi : k % 2 = 1}

CannotDivide(height, width) == height = 2 \/ width = 2

DrawRowWall(cs, row, lo, hi, hole) ==
    [p \in DOMAIN cs |->
        IF p[1] = row /\ p[2] \in lo .. hi
        THEN [cs[p] EXCEPT !.wall = (p[2] # hole)]
        ELSE cs[p]]

DrawColumnWall(cs, col, lo, hi, hole) ==
    [p \in DOMAIN cs |->
        IF p[2] = col /\ p[1] \in lo .. hi
        THEN [cs[p] EXCEPT !.wall = (p[1] # hole)]
        ELSE cs[p]]

divide ==
    /\ pc = "divide"
    /\ stack # <<>>
    /\ LET top_left == Top(stack).top_left
           bottom_right == Top(stack).bottom_right
           height == bottom_right[1] - top_left[1]
           width == bottom_right[2] - top_left[2] IN
       IF CannotDivide(height, width)
       THEN /\ stack' = Pop(stack)
            /\ cells' = cells
       ELSE IF height >= width
       THEN \E wall_index \in Evens(top_left[1] + 1, bottom_right[1] - 1) :
            \E hole_index \in Odds(top_left[2] + 1, bottom_right[2] - 1) :
               /\ cells' = DrawRowWall(cells, wall_index, top_left[2] + 1,
                                       bottom_right[2] - 1, hole_index)
               /\ stack' = Push(Push(Pop(stack),
                                DivideFrame(<<wall_index, top_left[2]>>, bottom_right)),
                                DivideFrame(top_left, <<wall_index, bottom_right[2]>>))
       ELSE \E wall_index \in Evens(top_left[2] + 1, bottom_right[2] - 1) :
            \E hole_index \in Odds(top_left[1] + 1, bottom_right[1] - 1) :
               /\ cells' = DrawColumnWall(cells, wall_index, top_left[1] + 1,
                                          bottom_right[1] - 1, hole_index)
               /\ stack' = Push(Push(Pop(stack),
                                DivideFrame(<<top_left[1], wall_index>>, bottom_right)),
                                DivideFrame(top_left, <<bottom_right[1], wall_index>>))
    /\ UNCHANGED <<pc, dimensions, entrypoint, goalpoint, frontiers,
                   dead_ends, scan, ret, panic, last_call, pushed, marked>>

gen_from_divide_finish ==
    /\ pc = "divide"
    /\ stack = <<>>
    /\ pc' = "idle"
    /\ UNCHANGED <<dimensions, entrypoint, goalpoint, cells, stack, frontiers,
                   dead_ends, scan, ret, panic, last_call, pushed, marked>>

-----------------------------------------------------------------------------
(* gen_from_prim: the main loop *)

\* a variant of RemoveAt that removes the last entry, whatever the index
RemoveLast(list, k) == SubSeq(list, 1, Len(list) - 1)

RemoveAt(list, k) == SubSeq(list, 1, k - 1) \o SubSeq(list, k + 1, Len(list))

OpenTwoNeighbors(cs, pos, dims) ==
    {p \in {Plus(pos, two_offsets_prim[k]) : k \in 1 .. Len(two_offsets_prim)} :
        InAllowableArea(p, dims) /\ ~cs[p].wall}

Midpoint(a, b) == <<(a[1] + b[1]) \div 2, (a[2] + b[2]) \div 2>>

prim_iteration ==
    /\ pc = "prim"
    /\ Len(frontiers) > 0
    /\ \E rand_frontier_index \in 1 .. Len(frontiers) :
          LET current == frontiers[rand_frontier_index]
              opened == SetWall(cells, current, FALSE)
              two_neighbors == OpenTwoNeighbors(opened, current, dimensions) IN
          \E connected \in
                IF two_neighbors = {} THEN {opened}
                ELSE {SetWall(opened, Midpoint(n, current), FALSE) : n \in two_neighbors} :
             /\ cells' = connected
             /\ frontiers' = RemoveAt(append_frontiers(connected, frontiers, current),
                                      rand_frontier_index)
    /\ UNCHANGED <<pc, dimensions, entrypoint, goalpoint, stack,
                   dead_ends, scan, ret, panic, last_call, pushed, marked>>

gen_from_prim_finish ==
    /\ pc = "prim"
    /\ Len(frontiers) = 0
    /\ pc' = "idle"
    /\ UNCHANGED <<dimensions, entrypoint, goalpoint, cells, stack, frontiers,
                   dead_ends, scan, ret, panic, last_call, pushed, marked>>

-----------------------------------------------------------------------------
(* is_solved, unsolve, solve_from *)

is_solved(cs, goal) == cs[goal].visited

VisitedCells(cs) == {p \in DOMAIN cs : cs[p].visited}

OpenCells(cs) == {p \in DOMAIN cs : ~cs[p].wall}

unsolve ==
    /\ pc = "idle"
    /\ cells' = ClearVisited(cells)
    /\ last_call' = Call("unsolve", "none", <<0, 0>>, TRUE)
    /\ UNCHANGED <<pc, dimensions, entrypoint, goalpoint, stack, frontiers,
                   dead_ends, scan, ret, panic, pushed, marked>>

BtFrame(pos, cs) == [pos |-> pos, stage |-> 0, visited_at_call |-> VisitedCells(cs)]

solve_from ==
    /\ pc = "idle"
    /\ \E algorithm \in SolvingAlgorithm :
          /\ last_call' = Call("solve_from", algorithm, <<0, 0>>,
                                VisitedCells(cells) = {})
          /\ IF algorithm = "RecursiveBacktracking"
             THEN /\ pc' = "backtracking"
                  /\ stack' = <<BtFrame(entrypoint, cells)>>
                  /\ ret' = "none"
                  /\ UNCHANGED <<cells, dead_ends, scan, pushed>>
             ELSE \* solve_from_dead_end_filling up to the detection pass
                  /\ pc' = "scan"
                  /\ cells' = SetVisited(SetVisited(cells, entrypoint, TRUE),
                                         goalpoint, TRUE)
                  /\ dead_ends' = <<>>
                  /\ pushed' = <<>>
                  /\ scan' = <<1, 1>>
                  /\ UNCHANGED <<stack, ret>>
    /\ UNCHANGED <<dimensions, entrypoint, goalpoint, frontiers, panic, marked>>

\* the solver has returned to solve_from, which drops its result
Returned(cs) ==
    IF last_call.fresh
    THEN [marked EXCEPT ![last_call.algorithm] = VisitedCells(cs)]
    ELSE marked

-----------------------------------------------------------------------------
(* solve_from_backtracking *)

\* stage 1..4 of a call: South, East, North, West
BtTarget(pos, stage) ==
    CASE stage = 1 -> <<pos[1] + 1, pos[2]>>
      [] stage = 2 -> <<pos[1], pos[2] + 1>>
      [] stage = 3 -> <<pos[1] - 1, pos[2]>>
      [] stage = 4 -> <<pos[1], pos[2] - 1>>

\* a variant of BtGuard that keeps East inside the border, as the generators do
BtGuardInside(pos, stage, dims) ==
    CASE stage = 1 -> pos[1] + 1 < dims[1]
      [] stage = 2 -> pos[2] + 1 < dims[2] - 1
      [] stage = 3 -> pos[1] - 1 > 0
      [] stage = 4 -> pos[2] - 1 > 0

\* the left operand of && in each direction's block
BtGuard(pos, stage, dims) ==
    CASE stage = 1 -> pos[1] + 1 < dims[1]
      [] stage = 2 -> pos[2] + 1 < dims[2]
      [] stage = 3 -> pos[1] - 1 > 0
      [] stage = 4 -> pos[2] - 1 > 0

\* a variant of Unmark that leaves the cell visited
UnmarkForgot(cs, pos) == cs

Unmark(cs, pos) == SetVisited(cs, pos, FALSE)

BtBlocked(cs, pos) == cs[pos].wall \/ cs[pos].visited

SetStage(s, n) == Push(Pop(s), [Top(s) EXCEPT !.stage = n])

\* a call begins: the two base cases and the mark
bt_call ==
    /\ pc = "backtracking"
    /\ stack # <<>>
    /\ Top(stack).stage = 0
    /\ LET pos == Top(stack).pos IN
       IF BtBlocked(cells, pos)
       THEN /\ ret' = "false"
            /\ stack' = Pop(stack)
            /\ cells' = cells
       ELSE /\ cells' = SetVisited(cells, pos, TRUE)
            /\ IF pos = goalpoint
               THEN /\ ret' = "true"
                    /\ stack' = Pop(stack)
               ELSE /\ ret' = "none"
                    /\ stack' = SetStage(stack, 1)
    /\ UNCHANGED <<pc, dimensions, entrypoint, goalpoint, frontiers,
                   dead_ends, scan, panic, last_call, pushed, marked>>

\* the next direction's block: its bounds test, then the recursive call
bt_try ==
    /\ pc = "backtracking"
    /\ stack # <<>>
    /\ Top(stack).stage \in 1 .. 4
    /\ ret = "none"
    /\ LET pos == Top(stack).pos
           stage == Top(stack).stage IN
       IF BtGuard(pos, stage, dimensions)
       THEN stack' = Push(stack, BtFrame(BtTarget(pos, stage), cells))
       ELSE stack' = SetStage(stack, stage + 1)
    /\ UNCHANGED <<pc, dimensions, entrypoint, goalpoint, cells, frontiers,
                   dead_ends, scan, ret, panic, last_call, pushed, marked>>

\* a recursive call has returned into the || chain
bt_resume ==
    /\ pc = "backtracking"
    /\ stack # <<>>
    /\ Top(stack).stage \in 1 .. 4
    /\ ret # "none"
    /\ IF ret = "true"
       THEN /\ stack' = Pop(stack)
            /\ ret' = ret
       ELSE /\ stack' = SetStage(stack, Top(stack).stage + 1)
            /\ ret' = "none"
    /\ UNCHANGED <<pc, dimensions, entrypoint, goalpoint, cells, frontiers,
                   dead_ends, scan, panic, last_call, pushed, marked>>

\* the last block of the || chain: unmark and fail
bt_fail ==
    /\ pc = "backtracking"
    /\ stack # <<>>
    /\ Top(stack).stage = 5
    /\ cells' = Unmark(cells, Top(stack).pos)
    /\ ret' = "false"
    /\ stack' = Pop(stack)
    /\ UNCHANGED <<pc, dimensions, entrypoint, goalpoint, frontiers,
                   dead_ends, scan, panic, last_call, pushed, marked>>

bt_finish ==
    /\ pc = "backtracking"
    /\ stack = <<>>
    /\ pc' = "idle"
    /\ marked' = Returned(cells)
    /\ UNCHANGED <<dimensions, entrypoint, goalpoint, cells, stack, frontiers,
                   dead_ends, scan, ret, panic, last_call, pushed>>

-----------------------------------------------------------------------------
(* solve_from_dead_end_filling *)

directions == <<<<1, 0>>, <<-1, 0>>, <<0, 1>>, <<0, -1>>>>

\* the detection pass adds dy to the row and dx to the column
DetectNeighbor(pos, d) == <<pos[1] + d[1], pos[2] + d[2]>>

\* a variant of RecountNeighbor that adds dx to the row and to the column
RecountNeighborDxTwice(pos, d) == <<pos[1] + d[2], pos[2] + d[2]>>

\* the recount adds dx to the row and dy to the column
RecountNeighbor(pos, d) == <<pos[1] + d[2], pos[2] + d[1]>>

\* "as usize" of a negative isize is far beyond any Vec: the index panics
InBounds(cs, p) == p \in DOMAIN cs

OpenVisited(cs, p) == ~cs[p].wall /\ cs[p].visited

neighbor_count(cs, pos) ==
    Cardinality({k \in 1 .. Len(directions) : ~cs[DetectNeighbor(pos, directions[k])].wall})

IsDeadEnd(cs, pos) == neighbor_count(cs, pos) = 1

NextScan(pos, dims) ==
    IF pos[2] + 1 < dims[2] - 1 THEN <<pos[1], pos[2] + 1>> ELSE <<pos[1] + 1, 1>>

\* one cell of the detection pass
def_scan ==
    /\ pc = "scan"
    /\ IF ~cells[scan].wall
       THEN /\ cells' = SetVisited(cells, scan, ~IsDeadEnd(cells, scan))
            /\ IF IsDeadEnd(cells, scan)
               THEN /\ dead_ends' = Append(dead_ends, scan)
                    /\ pushed' = Append(pushed, scan)
               ELSE UNCHANGED <<dead_ends, pushed>>
       ELSE UNCHANGED <<cells, dead_ends, pushed>>
    /\ scan' = NextScan(scan, dimensions)
    /\ pc' = IF NextScan(scan, dimensions)[1] < dimensions[1] - 1 THEN "scan" ELSE "fill"
    /\ UNCHANGED <<dimensions, entrypoint, goalpoint, stack, frontiers,
                   ret, panic, last_call, marked>>

\* find_map over directions from index k: <<"some", p>>, <<"none">> or <<"panic">>
RECURSIVE FindConnector(_, _, _)
FindConnector(cs, dead_end, k) ==
    IF k > Len(directions) THEN <<"none">>
    ELSE LET neighbor == DetectNeighbor(dead_end, directions[k]) IN
         IF ~InBounds(cs, neighbor) THEN <<"panic">>
         ELSE IF OpenVisited(cs, neighbor) THEN <<"some", neighbor>>
         ELSE FindConnector(cs, dead_end, k + 1)

RecountNeighbors(connector) ==
    {RecountNeighbor(connector, directions[k]) : k \in 1 .. Len(directions)}

\* a variant of paths_out_of_connector that counts as the detection pass does
paths_out_open(cs, connector) ==
    Cardinality({k \in 1 .. Len(directions) :
                    ~cs[RecountNeighbor(connector, directions[k])].wall})

paths_out_of_connector(cs, connector) ==
    Cardinality({k \in 1 .. Len(directions) :
                    OpenVisited(cs, RecountNeighbor(connector, directions[k]))})

\* a variant of FillIn that leaves the connector visited
FillInForgot(cs, connector) == cs

\* the connector becomes a dead end: it is marked unvisited
FillIn(cs, connector) == SetVisited(cs, connector, FALSE)

StillDeadEnd(count) == count = 1

\* a variant of PopLast that takes the first element, as a queue would
PopFirst(list) == <<Head(list), Tail(list)>>

\* Vec::pop: the last element, and the list without it
PopLast(list) == <<list[Len(list)], SubSeq(list, 1, Len(list) - 1)>>

\* one iteration of the while loop
def_fill ==
    /\ pc = "fill"
    /\ Len(dead_ends) # 0
    /\ LET dead_end == PopLast(dead_ends)[1]
           popped == PopLast(dead_ends)[2]
           found == FindConnector(cells, dead_end, 1) IN
       IF found[1] = "panic"
       THEN /\ pc' = "panicked"
            /\ panic' = "index out of bounds"
            /\ dead_ends' = popped
            /\ UNCHANGED <<cells, pushed>>
       ELSE IF found[1] = "none"
       THEN /\ pc' = "panicked"
            /\ panic' = "called Option::unwrap() on a None value"
            /\ dead_ends' = popped
            /\ UNCHANGED <<cells, pushed>>
       ELSE LET connector == found[2] IN
            IF \E n \in RecountNeighbors(connector) : ~InBounds(cells, n)
            THEN /\ pc' = "panicked"
                 /\ panic' = "index out of bounds"
                 /\ dead_ends' = popped
                 /\ UNCHANGED <<cells, pushed>>
            ELSE IF StillDeadEnd(paths_out_of_connector(cells, connector))
            THEN /\ cells' = FillIn(cells, connector)
                 /\ dead_ends' = Append(popped, connector)
                 /\ pushed' = Append(pushed, connector)
                 /\ UNCHANGED <<pc, panic>>
            ELSE /\ dead_ends' = popped
                 /\ UNCHANGED <<pc, panic, cells, pushed>>
    /\ UNCHANGED <<dimensions, entrypoint, goalpoint, stack, frontiers,
                   scan, ret, last_call, marked>>

\* the list is empty: the solver returns true
def_finish ==
    /\ pc = "fill"
    /\ Len(dead_ends) = 0
    /\ pc' = "idle"
    /\ pushed' = <<>>
    /\ marked' = Returned(cells)
    /\ UNCHANGED <<dimensions, entrypoint, goalpoint, cells, stack, frontiers,
                   dead_ends, scan, ret, panic, last_call>>

-----------------------------------------------------------------------------

Init ==
    /\ pc = "start"
    /\ dimensions = <<0, 0>>
    /\ entrypoint = <<0, 0>>
    /\ goalpoint = <<0, 0>>
    /\ cells = <<>>
    /\ stack = <<>>
    /\ frontiers = <<>>
    /\ dead_ends = <<>>
    /\ scan = <<0, 0>>
    /\ ret = "none"
    /\ panic = ""
    /\ last_call = Call("none", "none", <<0, 0>>, TRUE)
    /\ pushed = <<>>
    /\ marked = [a \in SolvingAlgorithm |-> {}]

Next ==
    \/ new_from
    \/ walk_to
    \/ walk_return
    \/ gen_from_walk_finish
    \/ divide
    \/ gen_from_divide_finish
    \/ prim_iteration
    \/ gen_from_prim_finish
    \/ solve_from
    \/ unsolve
    \/ bt_call
    \/ bt_try
    \/ bt_resume
    \/ bt_fail
    \/ bt_finish
    \/ def_scan
    \/ def_fill
    \/ def_finish

Spec == Init /\ [][Next]_vars

\* The program is one thread that runs each call to its end: a solver that can
\* take a step takes it.
FairSpec ==
    Spec /\ WF_vars(bt_call \/ bt_try \/ bt_resume \/ bt_fail \/ bt_finish)
         /\ WF_vars(def_scan \/ def_fill \/ def_finish)

\* new_from runs gen_from_prim to its end: its loop takes its next iteration
PrimFairSpec == Spec /\ WF_vars(prim_iteration \/ gen_from_prim_finish)

-----------------------------------------------------------------------------
(* Vocabulary of the properties *)

Abs(n) == IF n < 0 THEN -n ELSE n

Adjacent(p, q) == Abs(p[1] - q[1]) + Abs(p[2] - q[2]) = 1

\* the pairs of cardinally adjacent cells of S, each pair once
Adjacencies(S) ==
    {e \in S \X S : Adjacent(e[1], e[2]) /\
        (e[1][1] < e[2][1] \/ (e[1][1] = e[2][1] /\ e[1][2] < e[2][2]))}

Degree(S, p) == Cardinality({q \in S : Adjacent(p, q)})

RECURSIVE Reach(_, _, _)
Reach(S, seen, new) ==
    IF new = {} THEN seen
    ELSE LET next == {q \in S \ seen : \E p \in new : Adjacent(p, q)} IN
         Reach(S, seen \cup next, next)

ReachableFrom(S, p) == Reach(S, {p}, {p})

Connected(S) == S = {} \/ (LET p == CHOOSE q \in S : TRUE IN ReachableFrom(S, p) = S)

IsTree(S) == Connected(S) /\ Cardinality(Adjacencies(S)) = Cardinality(S) - 1

\* S is a simple path with ends a and b
IsPath(S, a, b) ==
    /\ a \in S /\ b \in S /\ a # b
    /\ IsTree(S)
    /\ Degree(S, a) = 1 /\ Degree(S, b) = 1
    /\ \A p \in S \ {a, b} : Degree(S, p) = 2

\* the cells every walk from a to b through open cells must cross
EntryGoalPath(cs, a, b) ==
    {p \in OpenCells(cs) : p \in {a, b} \/ b \notin ReachableFrom(OpenCells(cs) \ {p}, a)}

Interior(dims) == (1 .. dims[1] - 2) \X (1 .. dims[2] - 2)

Perimeter(dims) == Grid(dims) \ Interior(dims)

\* new_from has just returned a Maze
Generated == pc = "idle" /\ last_call.op = "new_from"

\* a Maze exists: new_from has returned
HasMaze == pc \in {"idle", "backtracking", "scan", "fill"}

\* solve_from has just returned, and it ran on a maze with no visited flag set
SolvedFresh == pc = "idle" /\ last_call.op = "solve_from" /\ last_call.fresh

-----------------------------------------------------------------------------
(* C1: every maze new_from returns, by any of the three creation algorithms  *)
(* and any random draws, is perfect: its non-wall cells (entry and goal      *)
(* included) are 4-connected and the number of pairs of adjacent non-wall    *)
(* cells is the number of non-wall cells minus one.                          *)
PerfectMaze ==
    Generated =>
        /\ Connected(OpenCells(cells))
        /\ Cardinality(Adjacencies(OpenCells(cells))) = Cardinality(OpenCells(cells)) - 1

\* a 7x7 maze by recursive division with a three-way junction
PerfectMazeWitness ==
    /\ Generated
    /\ last_call.algorithm = "RecursiveDivision"
    /\ dimensions = <<7, 7>>
    /\ \E p \in OpenCells(cells) : Degree(OpenCells(cells), p) = 3

(* C2: after solve_from (either algorithm) returns on a generated maze that  *)
(* had no visited flag set, is_solved() is true and the visited cells are    *)
(* non-wall cells forming a connected simple path whose ends are the entry   *)
(* (1, 0) and the goal (height - 2, width - 1).                              *)
SolveCorrect ==
    SolvedFresh =>
        /\ is_solved(cells, goalpoint)
        /\ VisitedCells(cells) \subseteq OpenCells(cells)
        /\ IsPath(VisitedCells(cells), <<1, 0>>, <<dimensions[1] - 2, dimensions[2] - 1>>)

\* dead-end filling has returned on a 7x7 maze that has cells off the path
SolveCorrectWitness ==
    /\ SolvedFresh
    /\ last_call.algorithm = "DeadEndFilling"
    /\ dimensions = <<7, 7>>
    /\ Cardinality(OpenCells(cells) \ VisitedCells(cells)) >= 6

(* C3: in every generated maze every perimeter cell is a wall except the     *)
(* entry (1, 0) and the goal (height - 2, width - 1), which are not walls.   *)
BorderInvariant ==
    Generated =>
        \A p \in Perimeter(dimensions) :
            cells[p].wall <=>
                (p # <<1, 0>> /\ p # <<dimensions[1] - 2, dimensions[2] - 1>>)

\* recursive division, which starts from an open grid, has returned a maze
BorderInvariantWitness ==
    /\ Generated
    /\ last_call.algorithm = "RecursiveDivision"
    /\ dimensions[1] >= 5 /\ dimensions[2] >= 5

\* the dimension the claim expects for a requested one
Normalized(n) == IF n % 2 = 1 THEN n ELSE n + 1

(* C4: new_from((h, w), algorithm) panics, and no Maze is produced, exactly  *)
(* when h <= 2 or w <= 2; otherwise the grid has height h if h is odd and    *)
(* h + 1 if even, and width w if w is odd and w + 1 if even.                 *)
NewFromContract ==
    last_call.op = "new_from" =>
        LET h == last_call.dimensions[1]
            w == last_call.dimensions[2] IN
        /\ (pc = "panicked") <=> (h <= 2 \/ w <= 2)
        /\ pc = "panicked" => cells = <<>>
        /\ pc # "panicked" =>
              /\ dimensions = <<Normalized(h), Normalized(w)>>
              /\ DOMAIN cells = (0 .. Normalized(h) - 1) \X (0 .. Normalized(w) - 1)

\* new_from((4, 4), _) has returned a 5x5 maze
NewFromContractWitness ==
    /\ Generated
    /\ last_call.dimensions = <<4, 4>>
    /\ dimensions = <<5, 5>>

Walls(cs) == {p \in DOMAIN cs : cs[p].wall}

(* C5: over any sequence of solve_from and unsolve calls no wall flag        *)
(* changes; a freshly generated maze has every visited flag false; and right *)
(* after unsolve every visited flag is false and is_solved() is false.       *)
SolveUnsolveFrame ==
    [][/\ HasMaze => Walls(cells') = Walls(cells)
       /\ Generated' => VisitedCells(cells') = {}
       /\ last_call'.op = "unsolve" =>
              /\ VisitedCells(cells') = {}
              /\ ~is_solved(cells', goalpoint')]_vars

\* unsolve has just cleared a solution
SolveUnsolveFrameWitness ==
    /\ pc = "idle"
    /\ last_call.op = "unsolve"
    /\ marked["DeadEndFilling"] # {}
    /\ marked["RecursiveBacktracking"] # {}
    /\ dimensions = <<7, 7>>

(* C6: on one generated maze with no visited flag set, dead-end filling and  *)
(* recursive backtracking leave the same cells visited: the cells of the     *)
(* unique entry-goal path, entry and goal included, and no other.            *)
SolversAgree ==
    (marked["DeadEndFilling"] # {} /\ marked["RecursiveBacktracking"] # {}) =>
        /\ marked["DeadEndFilling"] = marked["RecursiveBacktracking"]
        /\ SolvedFresh =>
              marked["DeadEndFilling"] = EntryGoalPath(cells, entrypoint, goalpoint)

\* both solvers have run on a 7x7 maze that has cells off the path
SolversAgreeWitness ==
    /\ marked["DeadEndFilling"] # {}
    /\ marked["RecursiveBacktracking"] # {}
    /\ dimensions = <<7, 7>>
    /\ Cardinality(OpenCells(cells) \ marked["DeadEndFilling"]) >= 6

\* the cardinal neighbours of p that are in the grid, non-wall and visited
OpenVisitedAround(cs, p) ==
    {q \in {<<p[1] + 1, p[2]>>, <<p[1] - 1, p[2]>>, <<p[1], p[2] + 1>>, <<p[1], p[2] - 1>>} :
        q \in DOMAIN cs /\ ~cs[q].wall /\ cs[q].visited}

(* C7: in dead-end filling the dead end about to be popped has exactly one   *)
(* cardinal neighbour that is non-wall and visited, its connector, and the   *)
(* connector is an interior cell, neither entry nor goal; the connector      *)
(* lookup and the recount never panic.                                       *)
ConnectorExists ==
    /\ (pc = "fill" /\ Len(dead_ends) # 0) =>
          LET around == OpenVisitedAround(cells, PopLast(dead_ends)[1]) IN
          /\ Cardinality(around) = 1
          /\ around \subseteq Interior(dimensions)
          /\ entrypoint \notin around /\ goalpoint \notin around
    /\ pc = "panicked" => last_call.op = "new_from"

\* a junction with two dead-end branches: one is filled, the other waits
ConnectorExistsWitness ==
    /\ pc = "fill"
    /\ Len(dead_ends) >= 2
    /\ Len(pushed) > Len(dead_ends) + 2
    /\ \E p \in Interior(dimensions) :
          /\ cells[p].visited
          /\ Cardinality({q \in OpenCells(cells) : Adjacent(p, q)}) >= 3
          /\ Cardinality(OpenVisitedAround(cells, p)) = 2

\* the count the detection pass's use of the offsets gives (dy to the row)
StraightCount(cs, p) ==
    Cardinality({d \in {<<1, 0>>, <<-1, 0>>, <<0, 1>>, <<0, -1>>} :
                    ~cs[<<p[1] + d[1], p[2] + d[2]>>].wall
                    /\ cs[<<p[1] + d[1], p[2] + d[2]>>].visited})

(* C8: the connector recount, which adds dx to the row and dy to the column, *)
(* gives at every position whose neighbours are in the grid, in every grid   *)
(* state the loop of dead-end filling passes through, the number of the four *)
(* cardinal neighbours that are non-wall and visited: the count the offsets  *)
(* applied as in the detection pass give.                                    *)
RecountIsCardinal ==
    pc = "fill" =>
        \A p \in Interior(dimensions) :
            /\ paths_out_of_connector(cells, p) = StraightCount(cells, p)
            /\ paths_out_of_connector(cells, p) = Cardinality(OpenVisitedAround(cells, p))

\* the loop is about to recount a connector whose row and column neighbours differ
RecountIsCardinalWitness ==
    /\ pc = "fill"
    /\ Len(dead_ends) # 0
    /\ \E p \in OpenVisitedAround(cells, PopLast(dead_ends)[1]) :
          /\ p \in Interior(dimensions)
          /\ paths_out_of_connector(cells, p) = 1
          /\ \E q \in OpenVisitedAround(cells, p) : q[1] # p[1]

NoDuplicates(list) == \A i, j \in 1 .. Len(list) : list[i] = list[j] => i = j

(* C9: the dead-end filling loop terminates with an empty dead-end list:     *)
(* over a run each interior cell is pushed at most once, and a cell whose    *)
(* visited flag was cleared is never set again in that run.                  *)
FillTerminates ==
    /\ [](pc \in {"scan", "fill"} =>
            /\ NoDuplicates(pushed)
            /\ \A k \in 1 .. Len(pushed) :
                  pushed[k] \in Interior(dimensions) /\ ~cells[pushed[k]].visited)
    /\ (pc = "scan") ~> (pc = "idle" /\ Len(dead_ends) = 0)

\* the loop has pushed connectors after the detection pass, and one is left
FillTerminatesWitness ==
    /\ pc = "fill"
    /\ Len(dead_ends) = 1
    /\ Len(pushed) >= 8
    /\ dimensions = <<7, 7>>

(* C10: in recursive backtracking started at the entry of an unsolved maze,  *)
(* is_solved() is false until the goal cell is reached; once the goal is     *)
(* visited no visited flag changes and every enclosing call returns without   *)
(* trying another direction; and a call that returns false leaves every      *)
(* visited flag as it was when the call started.                             *)
BacktrackingDiscipline ==
    [][(pc = "backtracking" /\ last_call.fresh) =>
          /\ is_solved(cells, goalpoint) => ret = "true"
          /\ is_solved(cells, goalpoint) =>
                /\ VisitedCells(cells') = VisitedCells(cells)
                /\ Len(stack') < Len(stack) \/ pc' = "idle"
          /\ (stack # <<>> /\ ret' = "false" /\ Len(stack') < Len(stack)) =>
                VisitedCells(cells') = Top(stack).visited_at_call]_vars

\* a call deep in a dead-end branch is about to unmark its cell and fail
BacktrackingDisciplineWitness ==
    /\ pc = "backtracking"
    /\ last_call.fresh
    /\ Len(stack) >= 4
    /\ Top(stack).stage = 5
    /\ dimensions = <<7, 7>>

TwoSteps(p) ==
    {<<p[1] - 2, p[2]>>, <<p[1] + 2, p[2]>>, <<p[1], p[2] - 2>>, <<p[1], p[2] + 2>>}

BothOdd(p) == p[1] % 2 = 1 /\ p[2] % 2 = 1

\* the interior cells that are open and two steps from p
OpenTwoStepsFrom(cs, p, dims) == {q \in TwoSteps(p) \cap Interior(dims) : ~cs[q].wall}

\* what the claim says of the list at the head of the loop
FrontierListOk(cs, list, dims) ==
    /\ NoDuplicates(list)
    /\ \A k \in 1 .. Len(list) :
          /\ list[k] \in Interior(dims)
          /\ BothOdd(list[k])
          /\ cs[list[k]].wall
          /\ OpenTwoStepsFrom(cs, list[k], dims) # {}

Members(list) == {list[k] : k \in 1 .. Len(list)}

ClosedOddOdd(cs, dims) == {p \in Interior(dims) : BothOdd(p) /\ cs[p].wall}

(* C12: for every grid size and every random draw the Prim loop terminates:  *)
(* each iteration draws an interior odd/odd cell that was never drawn before *)
(* (it is a wall until then and open afterwards), the frontier list becomes  *)
(* empty after finitely many iterations, and when the loop halts no interior *)
(* cell with both coordinates odd is still a wall.                           *)
PrimTerminates ==
    /\ [][(pc = "prim" /\ pc' = "prim") =>
             /\ ClosedOddOdd(cells', dimensions) \subseteq ClosedOddOdd(cells, dimensions)
             /\ Cardinality(ClosedOddOdd(cells', dimensions)) =
                   Cardinality(ClosedOddOdd(cells, dimensions)) - 1]_vars
    /\ []((pc = "prim" /\ Len(frontiers) = 0) => ClosedOddOdd(cells, dimensions) = {})
    /\ (pc = "prim") ~> (pc = "idle" /\ Len(frontiers) = 0)

\* the loop has halted on a 7x7 grid: the list is empty and the Maze not yet returned
PrimTerminatesWitness ==
    /\ pc = "prim"
    /\ Len(frontiers) = 0
    /\ dimensions = <<7, 7>>

OneOdd(p) == (p[1] % 2 = 1) # (p[2] % 2 = 1)

\* the two cells p lies directly between: its neighbours along its even coordinate
Flanks(p) ==
    IF p[1] % 2 = 0 THEN {<<p[1] - 1, p[2]>>, <<p[1] + 1, p[2]>>}
    ELSE {<<p[1], p[2] - 1>>, <<p[1], p[2] + 1>>}

(* C13: after generation by any of the three algorithms every cell whose row *)
(* and column are both even is a wall, and a non-wall cell is the entry, the *)
(* goal, an interior cell with both indices odd, or an interior cell with    *)
(* exactly one odd index that lies directly between two odd/odd interior     *)
(* cells and has exactly two non-wall cardinal neighbours.                   *)
ParityLayout ==
    Generated =>
        /\ \A p \in Grid(dimensions) :
              (p[1] % 2 = 0 /\ p[2] % 2 = 0) => cells[p].wall
        /\ \A p \in OpenCells(cells) :
              \/ p = <<1, 0>>
              \/ p = <<dimensions[1] - 2, dimensions[2] - 1>>
              \/ p \in Interior(dimensions) /\ BothOdd(p)
              \/ /\ p \in Interior(dimensions)
                 /\ OneOdd(p)
                 /\ \A q \in Flanks(p) :
                       q \in Interior(dimensions) /\ BothOdd(q) /\ ~cells[q].wall
                 /\ Degree(OpenCells(cells), p) = 2

\* a 7x7 maze by the random walk with open cells between odd rows and odd columns
ParityLayoutWitness ==
    /\ Generated
    /\ last_call.algorithm = "RandomWalk"
    /\ dimensions = <<7, 7>>
    /\ \E p, q \in OpenCells(cells) \cap Interior(dimensions) :
          p[1] % 2 = 0 /\ q[2] % 2 = 0

====
